---- MODULE Spec2Model ----
(***************************************************************************)
(* Model of trip_optimizer: the region-traversal detector                  *)
(* (optimizer_api/utils/maps.py, get_states_crossed) and the refueling     *)
(* optimizer (optimizer_api/utils/optimizer.py, refuel_optimizer).         *)
(*                                                                         *)
(* Geometry is discretised: a point is a cell <<x, y>> of a small grid, a  *)
(* region geometry is the set of cells for which shapely's                 *)
(* geometry.contains(point) is true, and its bounding box is the           *)
(* axis-aligned box of geometry.bounds.                                    *)
(***************************************************************************)
EXTENDS Integers, Sequences, FiniteSets, TLC

VARIABLES
    \* ---- get_states_crossed ----
    spatial_index,      \* sequence (dict in insertion order) of region entries
    coordinates,        \* the route handed to get_states_crossed
    idx,                \* position of the for loop in coordinates
    current_state,      \* maps.py:218
    traversed_states,   \* maps.py:210
    tpc,                \* "idle" | "loop" | "done"
    \* ---- refuel_optimizer ----
    route_data,         \* [route, distance]: the argument of refuel_optimizer
    states_crossed,     \* the codes handed to refuel_optimizer
    data,               \* rows of the station table read at optimizer.py:88
    filtered_data,      \* optimizer.py:91 and :106
    detour_distances,   \* optimizer.py:94-107
    refuel_result,      \* what minimize returned, optimizer.py:133
    outcome,            \* "none" | "plan" | "ZeroDivisionError"
    plan,               \* the returned dict, optimizer.py:162
    opc                 \* "idle" | "call" | "done"

tvars == <<spatial_index, coordinates, idx, current_state, traversed_states, tpc>>

ovars == <<route_data, states_crossed, data, filtered_data, detour_distances,
           refuel_result, outcome, plan, opc>>

vars == <<spatial_index, coordinates, idx, current_state, traversed_states, tpc,
          route_data, states_crossed, data, filtered_data, detour_distances,
          refuel_result, outcome, plan, opc>>

\* ---------------------------------------------------------------- bounds
NumRegions == 2
MaxRouteLen == 3
MaxStations == 2
MaxRoutePts == 2

\* ---------------------------------------------------------------- values
None == "None"

\* Python truthiness of a state code or None (a non-empty str is truthy).
Truthy(v) == v # None /\ v # ""

Codes == <<"A", "B", "C", "D">>

Xs == 0..1
Ys == 0..1
Cells == Xs \X Ys
Geometries == (SUBSET Cells) \ {{}}

SetMin(S) == CHOOSE m \in S : \A n \in S : m <= n
SetMax(S) == CHOOSE m \in S : \A n \in S : m >= n

\* geometry.bounds followed by box(*bounding_box): <<minx, miny, maxx, maxy>>
BoundingBox(geometry) ==
    LET xs == {c[1] : c \in geometry}
        ys == {c[2] : c \in geometry}
    IN  <<SetMin(xs), SetMin(ys), SetMax(xs), SetMax(ys)>>

\* A bounding box that leaves out its upper edges.
BoxContains_strict(bb, point) ==
    /\ bb[1] <= point[1] /\ point[1] < bb[3]
    /\ bb[2] <= point[2] /\ point[2] < bb[4]

\* spatial_index[..]["bounding_box"].contains(point_geom)
BoxContains(bb, point) ==
    /\ bb[1] <= point[1] /\ point[1] <= bb[3]
    /\ bb[2] <= point[2] /\ point[2] <= bb[4]

\* spatial_index[..]["geometry"].contains(point_geom)
GeometryContains(geometry, point) == point \in geometry

\* build_spatial_index: one entry per row, keyed by the "abbr" field.
BuildSpatialIndex(geoms) ==
    [k \in 1..Len(geoms) |->
        [code |-> Codes[k],
         geometry |-> geoms[k],
         bounding_box |-> BoundingBox(geoms[k])]]

\* spatial_index[code]
Entry(index, code) == index[CHOOSE k \in 1..Len(index) : index[k].code = code]

\* The current-state test reduced to the bounding box alone.
CurrentStateContains_bboxonly(index, cur, point) ==
    /\ Truthy(cur)
    /\ BoxContains(Entry(index, cur).bounding_box, point)

\* maps.py:226-231, the two-stage test against the current state
CurrentStateContains(index, cur, point) ==
    /\ Truthy(cur)
    /\ BoxContains(Entry(index, cur).bounding_box, point)
    /\ GeometryContains(Entry(index, cur).geometry, point)

\* maps.py:235-241, scan in dict iteration order, break at the first match
ScanAllStates(index, point) ==
    LET hits == {k \in 1..Len(index) :
                    /\ BoxContains(index[k].bounding_box, point)
                    /\ GeometryContains(index[k].geometry, point)}
    IN  IF hits = {} THEN None ELSE index[SetMin(hits)].code

\* maps.py:223-241, the value of state_found after both stages
FindState(index, cur, point) ==
    IF CurrentStateContains(index, cur, point)
    THEN cur
    ELSE ScanAllStates(index, point)

\* An append condition that forgets to compare with the current state.
StateChanged_nocompare(state_found, cur) == Truthy(state_found)

\* maps.py:244
StateChanged(state_found, cur) == Truthy(state_found) /\ state_found # cur

\* A loop that forgets the current state when a point matches nothing.
KeepCurrent_reset(state_found, cur) == None

\* current_state when the condition at maps.py:244 is false: untouched
KeepCurrent(state_found, cur) == cur

\* ------------------------------------------------------------ optimizer
\* Fixed-point units of the optimizer model:
\*   coordinate components   millidegrees
\*   distances               1/MileUnits of a mile
\*   fuel quantities         tenths of a gallon
\*   prices                  currency units per gallon
\*   costs                   1/(MileUnits * FUEL_EFFICIENCY) of a currency unit

\* optimizer.py:10-13
CAR_RANGE == 500
FUEL_EFFICIENCY == 10
ALPHA == 75
MAXIMUM_DETOUR == 30

MileUnits == 100 * 1000

Abs(v) == IF v < 0 THEN 0 - v ELSE v

RECURSIVE SumSeq(_)
SumSeq(s) == IF s = <<>> THEN 0 ELSE Head(s) + SumSeq(Tail(s))

\* positions from k on, in order, at which the boolean mask is true
RECURSIVE Where(_, _)
Where(mask, k) ==
    IF k > Len(mask) THEN <<>>
    ELSE IF mask[k] THEN <<k>> \o Where(mask, k + 1)
         ELSE Where(mask, k + 1)

Pick(s, pos) == [j \in 1..Len(pos) |-> s[pos[j]]]

\* 100 * np.cos(np.radians(avg_latitude)) for twice the average latitude in
\* millidegrees; tabulated for the latitude bands the inputs are drawn from
\* (within a degree of 0 and of 60), where it is exact to the model's
\* resolution.
CosPct(lat_sum) ==
    LET deg == ((lat_sum \div 2) + 500) \div 1000
    IN  CASE deg = 0 -> 100
          [] deg = 60 -> 50

\* maps.py:72-94, calculate_route_distance, in 1/MileUnits of a mile
calculate_route_distance(coord1, coord2) ==
    LET lat_miles == 69
        lon_pct == 69 * CosPct(coord1[1] + coord2[1])
        distance == lat_miles * 100 * Abs(coord1[1] - coord2[1])
                    + lon_pct * Abs(coord1[2] - coord2[2])
    IN  Abs(distance)

\* optimizer.py:17-29
find_closest_distance(route, coord) ==
    SetMin({calculate_route_distance(route[i], coord) : i \in 1..Len(route)})

\* np.round with the halves left where they are.
NpRound_identity(t) == t

\* np.round on a quantity in tenths: to the nearest whole, halves to even
NpRound(t) ==
    LET q == t \div 10
        r == t % 10
    IN  IF r < 5 THEN 10 * q
        ELSE IF r > 5 THEN 10 * (q + 1)
        ELSE IF q % 2 = 0 THEN 10 * q ELSE 10 * (q + 1)

\* optimizer.py:33-50, cost_function
cost_function(gallons, price_per_gallon, detours) ==
    SumSeq([i \in 1..Len(gallons) |->
        (gallons[i] * (MileUnits \div 10) * FUEL_EFFICIENCY + 2 * detours[i])
            * price_per_gallon[i]])

\* The fuel gap without the detour allowance.
constraint_nodetour(gallons, distance) ==
    SumSeq(gallons) - ((distance - CAR_RANGE + ALPHA) * 10) \div FUEL_EFFICIENCY

\* optimizer.py:54-68, constraint, in tenths of a gallon
constraint(gallons, distance) ==
    SumSeq(gallons)
        - ((distance + MAXIMUM_DETOUR - CAR_RANGE + ALPHA) * 10) \div FUEL_EFFICIENCY

\* optimizer.py:91: isin(states_crossed), dropna(), drop_duplicates()
RegionFilter(rows, states) ==
    LET inState == Pick(rows, Where([k \in 1..Len(rows) |-> rows[k].state \in states], 1))
        noNa == Pick(inState, Where([k \in 1..Len(inState) |-> ~inState[k].nan], 1))
    IN  Pick(noNa, Where([k \in 1..Len(noNa) |->
                        \A j \in 1..(k - 1) : noNa[j] # noNa[k]], 1))

\* optimizer.py:94-104: the closest distance of every row, times 100
ScaledDetours(rows, route) ==
    [i \in 1..Len(rows) |-> find_closest_distance(route, rows[i].coordinates) * 100]

\* optimizer.py:106-107: the mask detour_distances <= MAXIMUM_DETOUR
WithinDetour(d) == d <= MAXIMUM_DETOUR * MileUnits

\* A materiality test that keeps every station with any fuel at all.
Material_positive(fuel) == fuel > 0

\* optimizer.py:159: m["fuel"] > 1
Material(fuel) == fuel > 10

\* Quantities (tenths of a gallon) a solver result is drawn from.
Quantities == {0, 5, 10, 14, 25, 30}

\* optimizer.py:133-140, scipy.optimize.minimize (SLSQP) with the equality
\* constraint and the bounds (0, None): a result that reports success meets
\* the constraint and the bounds; a result that reports failure holds
\* whatever iterate the solver stopped at.
SolverResults(n, distance) ==
    {res \in [success : BOOLEAN, x : [1..n -> Quantities], called : {TRUE}] :
        res.success => ( /\ constraint(res.x, distance) = 0
                         /\ \A i \in 1..n : res.x[i] >= 0 )}

NoResult == [success |-> FALSE, x |-> <<>>, called |-> FALSE]
NoPlan == [stops |-> <<>>, total_cost |-> 0]

OIdle ==
    /\ route_data = [route |-> <<>>, distance |-> 0]
    /\ states_crossed = {}
    /\ data = <<>>
    /\ filtered_data = <<>>
    /\ detour_distances = <<>>
    /\ refuel_result = NoResult
    /\ outcome = "none"
    /\ plan = NoPlan
    /\ opc = "idle"

TIdle ==
    /\ spatial_index = <<>>
    /\ coordinates = <<>>
    /\ idx = 1
    /\ current_state = None
    /\ traversed_states = <<>>
    /\ tpc = "idle"

\* Inputs: a latitude band, points and stations a few millidegrees apart.
Bands == {0, 60000}
Points(b) == {<<b, 0>>, <<b + 5, 0>>, <<b, 8>>}
Stations(b) ==
    { [name |-> "s1", address |-> "a1", state |-> "A", price |-> 3,
       coordinates |-> <<b, 0>>, nan |-> FALSE],
      [name |-> "s2", address |-> "a2", state |-> "A", price |-> 4,
       coordinates |-> <<b + 4, 0>>, nan |-> FALSE],
      [name |-> "s3", address |-> "a3", state |-> "B", price |-> 3,
       coordinates |-> <<b, 0>>, nan |-> FALSE],
      [name |-> "s4", address |-> "a4", state |-> "A", price |-> 3,
       coordinates |-> <<b, 0>>, nan |-> TRUE] }
Distances == {385, 395, 400, 425}
CrossedSets == {{}, {"A"}}

OInit ==
    /\ \E b \in Bands :
          /\ route_data \in [route : UNION {[1..n -> Points(b)] : n \in 2..MaxRoutePts},
                             distance : Distances]
          /\ data \in UNION {[1..n -> Stations(b)] : n \in 0..MaxStations}
    /\ states_crossed \in CrossedSets
    /\ filtered_data = <<>>
    /\ detour_distances = <<>>
    /\ refuel_result = NoResult
    /\ outcome = "none"
    /\ plan = NoPlan
    /\ opc = "call"
    /\ TIdle

\* filtered_data after optimizer.py:106
Candidates(rows, states, route) ==
    LET regional == RegionFilter(rows, states)
        detours == ScaledDetours(regional, route)
    IN  Pick(regional, Where([k \in 1..Len(regional) |-> WithinDetour(detours[k])], 1))

\* detour_distances after optimizer.py:107
CandidateDetours(rows, states, route) ==
    LET detours == ScaledDetours(RegionFilter(rows, states), route)
    IN  Pick(detours, Where([k \in 1..Len(detours) |-> WithinDetour(detours[k])], 1))

\* refuel_optimizer with no station left: the division by number_of_stations
\* at optimizer.py:128-131 raises ZeroDivisionError.
RefuelOptimizerRaises ==
    /\ opc = "call"
    /\ LET cand == Candidates(data, states_crossed, route_data.route)
       IN  /\ Len(cand) = 0
           /\ filtered_data' = cand
           /\ detour_distances' = CandidateDetours(data, states_crossed, route_data.route)
    /\ outcome' = "ZeroDivisionError"
    /\ opc' = "done"
    /\ UNCHANGED <<route_data, states_crossed, data, refuel_result, plan>>
    /\ UNCHANGED tvars

\* refuel_optimizer with at least one station left, optimizer.py:87-162
RefuelOptimizerReturns ==
    /\ opc = "call"
    /\ LET cand == Candidates(data, states_crossed, route_data.route)
           detours == CandidateDetours(data, states_crossed, route_data.route)
           number_of_stations == Len(cand)
           price_per_gallon == [i \in 1..Len(cand) |-> cand[i].price]
       IN  /\ number_of_stations > 0
           /\ \E res \in SolverResults(number_of_stations, route_data.distance) :
                LET result_per_station ==
                        [i \in 1..Len(res.x) |->
                            [station |-> cand[i].name,
                             fuel |-> res.x[i],
                             address |-> cand[i].address,
                             coordinates |-> cand[i].coordinates]]
                    total_refuel_cost ==
                        cost_function([i \in 1..Len(res.x) |-> NpRound(res.x[i])],
                                      price_per_gallon, detours)
                IN  /\ refuel_result' = res
                    /\ plan' = [stops |-> Pick(result_per_station,
                                    Where([k \in 1..Len(result_per_station) |->
                                        Material(result_per_station[k].fuel)], 1)),
                                total_cost |-> total_refuel_cost]
           /\ filtered_data' = cand
           /\ detour_distances' = detours
    /\ outcome' = "plan"
    /\ opc' = "done"
    /\ UNCHANGED <<route_data, states_crossed, data>>
    /\ UNCHANGED tvars

ONext == RefuelOptimizerRaises \/ RefuelOptimizerReturns

SpecOptimize == OInit /\ [][ONext]_vars

\* ------------------------------------------------------------ traversal
Routes == UNION {[1..n -> Cells] : n \in 0..MaxRouteLen}
GeomLists == UNION {[1..n -> Geometries] : n \in 1..NumRegions}

TInit ==
    /\ spatial_index \in {BuildSpatialIndex(g) : g \in GeomLists}
    /\ coordinates \in Routes
    /\ idx = 1
    /\ current_state = None
    /\ traversed_states = <<>>
    /\ tpc = "loop"
    /\ OIdle

\* One iteration of the for loop, maps.py:221-246
TraverseStep ==
    /\ tpc = "loop"
    /\ idx <= Len(coordinates)
    /\ LET point == coordinates[idx]
           state_found == FindState(spatial_index, current_state, point)
       IN  IF StateChanged(state_found, current_state)
           THEN /\ traversed_states' = Append(traversed_states, state_found)
                /\ current_state' = state_found
           ELSE /\ traversed_states' = traversed_states
                /\ current_state' = KeepCurrent(state_found, current_state)
    /\ idx' = idx + 1
    /\ UNCHANGED <<spatial_index, coordinates, tpc>>
    /\ UNCHANGED ovars

\* maps.py:249
TraverseReturn ==
    /\ tpc = "loop"
    /\ idx > Len(coordinates)
    /\ tpc' = "done"
    /\ UNCHANGED <<spatial_index, coordinates, idx, current_state, traversed_states>>
    /\ UNCHANGED ovars

TNext == TraverseStep \/ TraverseReturn

SpecTraverse == TInit /\ [][TNext]_vars

\* Reference detector: every point scans all regions in iteration order.
RECURSIVE RefDetect(_, _, _, _, _)
RefDetect(index, route, k, cur, out) ==
    IF k > Len(route) THEN out
    ELSE LET hits == {r \in 1..Len(index) : route[k] \in index[r].geometry}
             found == IF hits = {} THEN None ELSE index[SetMin(hits)].code
         IN  IF found # None /\ found # cur
             THEN RefDetect(index, route, k + 1, found, Append(out, found))
             ELSE RefDetect(index, route, k + 1, cur, out)

RefTraverse(index, route) == RefDetect(index, route, 1, None, <<>>)

\* regions whose geometry holds the point
RegionsOf(point) == {r \in 1..Len(spatial_index) : point \in spatial_index[r].geometry}

\* the point lies in region r and in no other region
OnlyIn(point, r) == RegionsOf(point) = {r}

\* ------------------------------------------------------- traversal claims

\* C1: the sequence built by get_states_crossed never holds the same code in
\* two adjacent positions, and a route whose points lie first in region a,
\* then in region b, then in region a again returns <<a, b, a>>.
C1_NoAdjacentRepeat_ABA ==
    /\ \A j \in 1..(Len(traversed_states) - 1) :
          traversed_states[j] # traversed_states[j + 1]
    /\ tpc = "done" =>
          \A a, b \in 1..Len(spatial_index) :
            \A m, n \in 1..Len(coordinates) :
              ( /\ a # b
                /\ m < n /\ n < Len(coordinates)
                /\ \A j \in 1..m : OnlyIn(coordinates[j], a)
                /\ \A j \in (m + 1)..n : OnlyIn(coordinates[j], b)
                /\ \A j \in (n + 1)..Len(coordinates) : OnlyIn(coordinates[j], a) )
              => traversed_states =
                    <<spatial_index[a].code, spatial_index[b].code, spatial_index[a].code>>

\* C1 witness: a finished call that returned a code, another code, and the
\* first code again.
C1_Witness ==
    /\ tpc = "done"
    /\ Len(traversed_states) = 3
    /\ traversed_states[1] = traversed_states[3]
    /\ \E a, b \in 1..Len(spatial_index) :
          /\ a # b
          /\ OnlyIn(coordinates[1], a)
          /\ OnlyIn(coordinates[2], b)
          /\ OnlyIn(coordinates[3], a)

\* C2: a route with at least one point, all of whose points lie in one region
\* and in no other, returns the one-element sequence with that region's code.
C2_SingleRegionRoute ==
    tpc = "done" =>
        \A r \in 1..Len(spatial_index) :
            ( /\ Len(coordinates) >= 1
              /\ \A j \in 1..Len(coordinates) : OnlyIn(coordinates[j], r) )
            => traversed_states = <<spatial_index[r].code>>

\* C2 witness: a finished call over a route of several points that all lie in
\* the second region only, while the index holds two regions.
C2_Witness ==
    /\ tpc = "done"
    /\ Len(coordinates) >= 2
    /\ Len(spatial_index) >= 2
    /\ \A j \in 1..Len(coordinates) : OnlyIn(coordinates[j], 2)
    /\ coordinates[1] # coordinates[2]

\* C3: processing a point that matches no region leaves current_state and
\* traversed_states unchanged, and a route none of whose points match any
\* region (the empty route included) returns the empty sequence.
C3_UnmatchedPointFrame ==
    /\ [][ ( /\ tpc = "loop"
             /\ idx <= Len(coordinates)
             /\ RegionsOf(coordinates[idx]) = {} )
           => ( /\ current_state' = current_state
                /\ traversed_states' = traversed_states ) ]_vars
    /\ []( ( /\ tpc = "done"
             /\ \A j \in 1..Len(coordinates) : RegionsOf(coordinates[j]) = {} )
           => traversed_states = <<>> )

\* C3 witness: an unmatched point has been processed after a matched one, and
\* the current state set by the matched one is still there.
C3_Witness ==
    /\ idx = 3
    /\ RegionsOf(coordinates[1]) # {}
    /\ RegionsOf(coordinates[2]) = {}
    /\ current_state # None
    /\ traversed_states = <<current_state>>

\* no point of the route lies in more than one region
RouteUnambiguous ==
    \A j \in 1..Len(coordinates) : Cardinality(RegionsOf(coordinates[j])) <= 1

\* C10 (as stated): get_states_crossed returns, for every route and index, the
\* sequence of the reference detector that scans all regions for every point.
C10_EqualsReference ==
    tpc = "done" => traversed_states = RefTraverse(spatial_index, coordinates)

\* C10 (amended): the two agree whenever no point of the route lies in more
\* than one region.
C10_EqualsReferenceUnambiguous ==
    (tpc = "done" /\ RouteUnambiguous)
        => traversed_states = RefTraverse(spatial_index, coordinates)

\* C10 witness: a finished call over an unambiguous route in which a point
\* falls in the current state's bounding box but outside its geometry and
\* inside another region, so that the fallback scan decided.
C10_Witness ==
    /\ tpc = "done"
    /\ RouteUnambiguous
    /\ Len(traversed_states) >= 2
    /\ \E j \in 2..Len(coordinates) :
          /\ RegionsOf(coordinates[j - 1]) # {}
          /\ RegionsOf(coordinates[j]) # {}
          /\ RegionsOf(coordinates[j]) # RegionsOf(coordinates[j - 1])
          /\ \E r \in RegionsOf(coordinates[j - 1]) :
                BoxContains(spatial_index[r].bounding_box, coordinates[j])

\* ------------------------------------------------------- optimizer claims

Returned == opc = "done" /\ outcome = "plan"

\* candidate positions whose solver quantity exceeds one gallon
ListedPositions == {i \in 1..Len(refuel_result.x) : refuel_result.x[i] > 10}

\* whole-gallon vectors within half a gallon of the solver quantities
RoundedVectors ==
    {r \in [1..Len(refuel_result.x) -> {10 * g : g \in 0..4}] :
        \A i \in 1..Len(refuel_result.x) : Abs(r[i] - refuel_result.x[i]) <= 5}

\* sum((g_i + 2 * detour_i / E) * price_i) over the candidates at positions I
\* with quantities g, in cost units
Objective(g, I) ==
    SumSeq([i \in 1..Len(filtered_data) |->
        IF i \in I
        THEN (g[i] * (MileUnits \div 10) * FUEL_EFFICIENCY + 2 * detour_distances[i])
                * filtered_data[i].price
        ELSE 0])

\* C4: when no station remains after the region filter and the detour filter,
\* refuel_optimizer ends in an explicit infeasibility outcome.
C4_NoStationsReportedExplicitly ==
    (opc = "done" /\ Len(filtered_data) = 0)
        => (outcome = "InfeasibleError" /\ plan = NoPlan)

\* C5: when the solver reports no success, refuel_optimizer reports a failure
\* and returns no plan built from the solver's result.
C5_SolverFailureReported ==
    (opc = "done" /\ refuel_result.called /\ ~refuel_result.success)
        => outcome # "plan"

\* C6 (as stated): for a route distance of CAR_RANGE - ALPHA the fuel gap is
\* at most 0 and the call returns a plan with no stations and total cost 0,
\* also when candidate stations exist.
C6_RangeMinusBufferNeedsNothing ==
    (opc = "done" /\ route_data.distance = CAR_RANGE - ALPHA /\ Len(filtered_data) >= 1)
        => ( /\ outcome = "plan"
             /\ (refuel_result.success => SumSeq(refuel_result.x) <= 0)
             /\ plan.stops = <<>>
             /\ plan.total_cost = 0 )

\* C6 (amended): at distance CAR_RANGE - ALPHA a converged call buys
\* MAXIMUM_DETOUR / FUEL_EFFICIENCY gallons in total; the gap is 0 at distance
\* CAR_RANGE - ALPHA - MAXIMUM_DETOUR, where a converged call returns a plan
\* with no stations whose total cost is the detour overhead
\* sum(2 * detour_i / E * price_i) of all candidates.
C6_ZeroGapAtRangeMinusBufferMinusDetour ==
    (Returned /\ refuel_result.success) =>
        /\ route_data.distance = CAR_RANGE - ALPHA
             => SumSeq(refuel_result.x) * FUEL_EFFICIENCY = MAXIMUM_DETOUR * 10
        /\ route_data.distance = CAR_RANGE - ALPHA - MAXIMUM_DETOUR
             => ( /\ plan.stops = <<>>
                  /\ plan.total_cost =
                        Objective([i \in 1..Len(filtered_data) |-> 0],
                                  1..Len(filtered_data)) )

\* C6 witness: a converged call at distance CAR_RANGE - ALPHA - MAXIMUM_DETOUR
\* with two candidates, one of them off the route, returned no stations and a
\* positive total cost.
C6_Witness ==
    /\ Returned /\ refuel_result.success
    /\ route_data.distance = CAR_RANGE - ALPHA - MAXIMUM_DETOUR
    /\ Len(filtered_data) = 2
    /\ plan.stops = <<>>
    /\ plan.total_cost > 0

\* C7 (as stated): the reported total cost is the objective at the quantities
\* of the returned plan, and those quantities are rounded.
C7_CostAtReturnedRoundedQuantities ==
    Returned =>
        /\ \A j \in 1..Len(plan.stops) : plan.stops[j].fuel % 10 = 0
        /\ plan.total_cost = Objective(refuel_result.x, ListedPositions)

\* C7 (amended): the reported total cost is the objective at the rounded
\* solver quantities of all candidates, listed or not, while the plan lists
\* the solver's unrounded quantities.
C7_CostAtRoundedSolverQuantities ==
    Returned =>
        /\ \E r \in RoundedVectors :
              plan.total_cost = Objective(r, 1..Len(filtered_data))
        /\ [j \in 1..Len(plan.stops) |-> plan.stops[j].fuel]
              = Pick(refuel_result.x,
                     Where([k \in 1..Len(refuel_result.x) |-> k \in ListedPositions], 1))

\* C7 witness: a returned plan lists a fractional quantity, and a candidate
\* with a fractional quantity below the threshold is costed but not listed.
C7_Witness ==
    /\ Returned /\ refuel_result.success
    /\ Len(filtered_data) = 2
    /\ Len(plan.stops) = 1
    /\ plan.stops[1].fuel % 10 # 0
    /\ \E i \in 1..2 : refuel_result.x[i] = 5

C9_KeptIffWithinDetourMiles ==
    opc = "done" =>
        \A row \in {data[k] : k \in 1..Len(data)} :
            (row.state \in states_crossed /\ ~row.nan) =>
                ( (\E i \in 1..Len(filtered_data) : filtered_data[i] = row)
                  <=> find_closest_distance(route_data.route, row.coordinates)
                        <= MAXIMUM_DETOUR * MileUnits )

====
